---- MODULE Spec2Model ----
(***************************************************************************)
(* Model of the page-scan result pipeline of Fabric_CICD:                  *)
(*   conftest.py                       session hooks: metadata refresh,    *)
(*                                     aggregation, JSON + HTML, cleanup   *)
(*   tests/test_pbi_visual_validation  per-report test: scan, save result  *)
(*   helper_functions/report_html.py   the HTML renderer                   *)
(*                                                                         *)
(* Processes: 0 is the coordinating pytest process (worker id "master"),   *)
(* w > 0 is the xdist worker gw<w-1>.  File id p stands for                *)
(* tests/test-results/results_<worker id of p>.json.                       *)
(*                                                                         *)
(* Numbers: passRate is kept as an integer number of hundredths of a       *)
(* percent (round(x, 2) has exactly two decimals), so 100.0 is 10000.      *)
(***************************************************************************)
EXTENDS Integers, Sequences, FiniteSets, TLC

\* ------------------------------------------------------------- bounds
MaxWorkers == 2
NumReports == 2
MaxPages == 1
MaxStale == 1
MaxRateTotal == 40
MaxRateFailed == 2
LargeSession == 20000
MaxVisuals == 2
MaxErrors == 2
MaxClock == 16
MaxRenderPages == 2

\* ------------------------------------------------------------- constants of the source
HardTimeout == 15
PollInterval == 1

VARIABLES
    pc,            \* position of every process in the pytest session
    pending,       \* parametrized report tests not yet executed
    files,         \* results_<worker>.json, per file id
    final_output,  \* pytest_sessionfinish's local final_output
    final_json,    \* tests/test-results/all_reports_results.json
    html_report,   \* tests/test-results/report.html
    refresh_rc,    \* result.returncode of the metadata script (-1: not run)
    performed,     \* history: how often each process did each session-level operation
    appended,      \* history: result_data records written by this session's tests
    aggregated,    \* history: file ids whose parsed content went into all_results
    skipped,       \* history: file ids the aggregator warned about and skipped
    deleted,       \* history: file ids unlinked by the cleanup loop
    produced,      \* history: paths this session has written
    rate_in,       \* input of the summary computation checked on its own
    rate_out,      \* its output
    test,          \* one worker's test function, followed statement by statement
    probe,         \* the page scan inside the browser, followed event by event
    token_call,    \* one call of get_report_embed_token: its inputs and its request body
    render_call    \* calls of generate_html_report: their inputs and their documents

vars == <<pc, pending, files, final_output, final_json, html_report, refresh_rc,
          performed, appended, aggregated, skipped, deleted, produced, rate_in, rate_out,
          test, probe, token_call, render_call>>

Procs == 0 .. MaxWorkers
Reports == 1 .. NumReports
Ops == {"refresh", "aggregate", "render", "cleanup"}

\* ------------------------------------------------------------- probe result
\* A page's error mapping, by its keys; the empty mapping is a pass.
ErrorMaps == {{}, {"visual"}}

PageShapes == UNION {[1 .. n -> [errors : ErrorMaps]] : n \in 0 .. MaxPages}

RECURSIVE FailedFrom(_, _)
FailedFrom(pages, i) ==
    IF i > Len(pages) THEN <<>>
    ELSE (IF pages[i].errors # {} THEN <<i>> ELSE <<>>) \o FailedFrom(pages, i + 1)

\* failedPages of the scan: the pages whose pageErrors has a key, in page order.
FailedPages(pages) == FailedFrom(pages, 1)

\* result_data.  stamp stands for the three timing fields (reportLoadTime,
\* totalDuration, pythonDuration), which tell one execution's record from another's:
\* 1 for this session, 0 for a record left by an earlier session.
ResultData(r, pages, stamp) ==
    [reportId |-> r, pages |-> pages, failedPages |-> FailedPages(pages), stamp |-> stamp]

StaleReport == ResultData(1, <<[errors |-> {"visual"}]>>, 0)

\* ------------------------------------------------------------- worker files
\* The text of a worker file, by what json.loads makes of it.
AbsentFile == [kind |-> "absent", items |-> <<>>]
MalformedFile == [kind |-> "malformed", items |-> <<>>]
ObjectFile == [kind |-> "object", items |-> <<>>]
ListFile(items) == [kind |-> "list", items |-> items]

AppendResultOverwrite(existing_results, result_data) == <<result_data>>

\* existing_results.append(result_data)
AppendResultFirst(existing_results, result_data) == <<result_data>> \o existing_results

AppendResult(existing_results, result_data) == Append(existing_results, result_data)

\* ------------------------------------------------------------- summary
PassedPagesForgotten(total_pages, failed_pages) == total_pages

PassedPages(total_pages, failed_pages) == total_pages - failed_pages

\* round(numer / denom * 100, 2) in hundredths.  Python rounds the double it is
\* given: away from an exact tie that is the nearest hundredth, and at an exact tie
\* (2 * rem = denom) the double may lie on either side, so both neighbours are outcomes.
Round2(numer, denom) ==
    LET n == numer * 10000
        q == n \div denom
        rem == n % denom
    IN  IF 2 * rem < denom THEN {q}
        ELSE IF 2 * rem > denom THEN {q + 1}
        ELSE {q, q + 1}

PassRatesOfFailed(total_pages, failed_pages) ==
    IF total_pages # 0 THEN Round2(failed_pages, total_pages) ELSE {0}

PassRates(total_pages, failed_pages) ==
    IF total_pages # 0 THEN Round2(total_pages - failed_pages, total_pages) ELSE {0}

\* The summary dict, for each outcome of the rounding.
SummaryFor(n_reports, total_pages, failed_pages) ==
    {[totalReports |-> n_reports,
      totalPages |-> total_pages,
      failedPages |-> failed_pages,
      passedPages |-> PassedPages(total_pages, failed_pages),
      passRate |-> rate] : rate \in PassRates(total_pages, failed_pages)}

\* sum(1 for p in pages.values() if p.get("errors"))
FailedCountAll(pages) == Len(pages)

FailedCount(pages) == Cardinality({i \in 1 .. Len(pages) : pages[i].errors # {}})

AddFailedAssign(failed_pages, n) == n

\* failed_pages += n
AddFailed(failed_pages, n) == failed_pages + n

RECURSIVE TotalsFrom(_, _, _)
TotalsFrom(all_results, i, acc) ==
    IF i > Len(all_results) THEN acc
    ELSE TotalsFrom(all_results, i + 1,
            [total_pages |-> acc.total_pages + Len(all_results[i].pages),
             failed_pages |-> AddFailed(acc.failed_pages, FailedCount(all_results[i].pages))])

\* The loop over all_results that counts pages and failed pages.
Totals(all_results) == TotalsFrom(all_results, 1, [total_pages |-> 0, failed_pages |-> 0])

\* final_output for each outcome of the rounding.
FinalOutputs(all_results) ==
    LET t == Totals(all_results)
    IN  {[summary |-> s, reports |-> all_results] :
            s \in SummaryFor(Len(all_results), t.total_pages, t.failed_pages)}

ZeroSummary ==
    [totalReports |-> 0, totalPages |-> 0, failedPages |-> 0, passedPages |-> 0, passRate |-> 0]

NoDoc == [summary |-> ZeroSummary, reports |-> <<>>]

\* ------------------------------------------------------------- aggregation loop
ReadOneAbort(acc, id, f) ==
    IF f.kind = "list"
    THEN [acc EXCEPT !.items = @ \o f.items]
    ELSE [acc EXCEPT !.junk = TRUE]

\* One iteration of the loop over the glob: extend all_results with the parsed file,
\* or warn and go on.  A JSON object parses, and extend() adds its keys (strings).
ReadOne(acc, id, f) ==
    CASE f.kind = "list" -> [acc EXCEPT !.items = @ \o f.items]
      [] f.kind = "object" -> [acc EXCEPT !.junk = TRUE]
      [] OTHER -> acc

RECURSIVE ReadFrom(_, _, _, _)
ReadFrom(fs, order, i, acc) ==
    IF i > Len(order) THEN acc
    ELSE ReadFrom(fs, order, i + 1, ReadOne(acc, order[i], fs[order[i]]))

ReadAll(fs, order) == ReadFrom(fs, order, 1, [items |-> <<>>, junk |-> FALSE])

Existing(fs) == {id \in DOMAIN fs : fs[id].kind # "absent"}

Perms(S) ==
    {s \in [1 .. Cardinality(S) -> S] : \A i, j \in DOMAIN s : i # j => s[i] # s[j]}

\* TEST_RESULTS_DIR.glob("results_*.json"): the existing files, in any order.
GlobOrders(fs) == Perms(Existing(fs))

\* ------------------------------------------------------------- renderer
\* page_info.get("serviceUrl", "")
ServiceUrl(page_info) ==
    IF "serviceUrl" \in DOMAIN page_info THEN page_info.serviceUrl ELSE ""

\* A file <page name>_<worker id>.png of the results directory; its bytes are its own.
NoScreenshot == [page |-> 0, worker |-> 0]

\* A results directory that holds no screenshot, as it is listed.
NoScreenshots == <<>>

\* for png in results_dir.glob(f"{page_name}_*.png"): ...; break
\* results_dir is the directory as it is listed; the first match is embedded.
RECURSIVE FirstMatchFrom(_, _, _)
FirstMatchFrom(results_dir, page_name, i) ==
    IF i > Len(results_dir) THEN NoScreenshot
    ELSE IF results_dir[i].page = page_name THEN results_dir[i]
    ELSE FirstMatchFrom(results_dir, page_name, i + 1)

Screenshot(results_dir, page_name) == FirstMatchFrom(results_dir, page_name, 1)

TileWantedAlways(errors) == TRUE

\* if not errors: continue
TileWanted(errors) == errors # {}

RECURSIVE TilesFrom(_, _, _)
TilesFrom(pages, results_dir, i) ==
    IF i > Len(pages) THEN <<>>
    ELSE (IF TileWanted(pages[i].errors)
          THEN <<[page_name |-> i,
                  service_url |-> ServiceUrl(pages[i]),
                  screenshot |-> Screenshot(results_dir, i),
                  errors |-> pages[i].errors]>>
          ELSE <<>>) \o TilesFrom(pages, results_dir, i + 1)

RECURSIVE SectionsFrom(_, _, _)
SectionsFrom(reports, results_dir, i) ==
    IF i > Len(reports) THEN <<>>
    ELSE LET failed_pages == TilesFrom(reports[i].pages, results_dir, 1)
         IN  (IF failed_pages # <<>>
              THEN <<[reportId |-> reports[i].reportId,
                      count |-> Len(failed_pages),
                      tiles |-> failed_pages]>>
              ELSE <<>>) \o SectionsFrom(reports, results_dir, i + 1)

\* status_class = "pass" if pass_rate == 100 else "fail"
StatusClass(pass_rate) == IF pass_rate = 10000 THEN "pass" ELSE "fail"

BlocksBoth(failed_sections) == <<"header", "summary", "failed-reports", "all-pass">>

\* The blocks of the document in their order: the header, the summary block, then
\* the failed reports if there is a failed section and else the success card.
Blocks(failed_sections) ==
    <<"header", "summary", IF failed_sections # <<>> THEN "failed-reports" ELSE "all-pass">>

\* generate_html_report(final_output, results_dir).
GenerateHtmlReport(final, results_dir) ==
    LET failed_sections == SectionsFrom(final.reports, results_dir, 1)
        blocks == Blocks(failed_sections)
    IN  [summary |-> final.summary,
         status_class |-> StatusClass(final.summary.passRate),
         blocks |-> blocks,
         failed_sections |-> IF \E i \in DOMAIN blocks : blocks[i] = "failed-reports"
                             THEN failed_sections ELSE <<>>,
         all_pass |-> \E i \in DOMAIN blocks : blocks[i] = "all-pass"]

\* ------------------------------------------------------------- session hooks
HasWorkerInputNever(p) == FALSE

\* hasattr(session.config, "workerinput"): true in an xdist worker only.
HasWorkerInput(p) == p # 0

AbortsNever(returncode) == FALSE

\* if result.returncode != 0: ... raise SystemExit
Aborts(returncode) == returncode # 0

FinishStepsRenderFirst == <<"aggregate", "render", "write_json", "cleanup">>

\* The order of pytest_sessionfinish's steps after the worker guard.
FinishSteps == <<"aggregate", "write_json", "render", "cleanup">>

StepAfter(step) ==
    LET i == CHOOSE k \in DOMAIN FinishSteps : FinishSteps[k] = step
    IN  IF i = Len(FinishSteps) THEN "done" ELSE FinishSteps[i + 1]

CleanupTargetsAggregated(fs, read) == read

\* for f in TEST_RESULTS_DIR.glob("results_*.json"): f.unlink()
CleanupTargets(fs, read) == Existing(fs)

Workers == {w \in 1 .. MaxWorkers : pc[w] # "absent"}

Did(op, p) == performed' = [performed EXCEPT ![op][p] = @ + 1]

\* pytest_sessionstart in process p.
SessionStart(p) ==
    /\ IF p = 0 THEN pc[p] = "not_started" ELSE pc[p] = "spawned"
    /\ IF HasWorkerInput(p)
       THEN /\ pc' = [pc EXCEPT ![p] = "scanning"]
            /\ UNCHANGED <<refresh_rc, performed>>
       ELSE \E returncode \in {0, 1} :
               /\ refresh_rc' = returncode
               /\ Did("refresh", p)
               /\ pc' = [pc EXCEPT ![p] = IF Aborts(returncode) THEN "aborted" ELSE "refreshed"]
    /\ UNCHANGED <<pending, files, final_output, final_json, html_report, appended,
                   aggregated, skipped, deleted, produced, rate_in, rate_out, test, probe, token_call, render_call>>

\* After its own session start the coordinating process either runs the tests itself
\* (n = 0, no xdist) or starts n workers, which then run them.
Spawn(n) ==
    /\ pc[0] = "refreshed"
    /\ pc' = [q \in Procs |-> IF q = 0 THEN "scanning"
                              ELSE IF q <= n THEN "spawned" ELSE pc[q]]
    /\ UNCHANGED <<pending, files, final_output, final_json, html_report, refresh_rc,
                   performed, appended, aggregated, skipped, deleted, produced, rate_in, rate_out, test, probe, token_call, render_call>>

\* What one execution of the test meets before it saves: the token request fails
\* (get_report_embed_token raises), or the scan returns pages; when pages failed, the
\* screenshot of one may raise.
Outcomes ==
    {[tokenOk |-> FALSE, pages |-> <<>>, shotOk |-> TRUE]}
    \cup {[tokenOk |-> TRUE, pages |-> pages, shotOk |-> TRUE] : pages \in PageShapes}
    \cup {[tokenOk |-> TRUE, pages |-> pages, shotOk |-> FALSE] :
            pages \in {ps \in PageShapes : FailedPages(ps) # <<>>}}

\* pytest runs the parametrized tests in collection order; with xdist the next test
\* goes to any worker, once every worker has started its session and collected.
NextReport == CHOOSE r \in pending : \A q \in pending : r <= q

\* test_pbi_rendering_validation for the next report, in process p, meeting outcome o.
SaveResult(p, r, o) ==
    LET f == files[p]
        result_data == ResultData(r, o.pages, 1)
        raises == \/ ~o.tokenOk
                  \/ ~o.shotOk
                  \/ f.kind \in {"malformed", "object"}
    IN  IF raises
        THEN UNCHANGED <<files, appended, produced>>
        ELSE /\ files' = [files EXCEPT ![p] = ListFile(AppendResult(f.items, result_data))]
             /\ appended' = appended \cup {result_data}
             /\ produced' = produced \cup {<<"results", p>>}

RunTest(p) ==
    /\ pc[p] = "scanning"
    /\ p = 0 => Workers = {}
    /\ \A w \in Workers : pc[w] # "spawned"
    /\ pending # {}
    /\ pending' = pending \ {NextReport}
    /\ \E o \in Outcomes : SaveResult(p, NextReport, o)
    /\ UNCHANGED <<pc, final_output, final_json, html_report, refresh_rc, performed,
                   aggregated, skipped, deleted, rate_in, rate_out, test, probe, token_call, render_call>>

\* pytest calls pytest_sessionfinish in a process once its run loop has ended: in a
\* worker when the tests are through, in the coordinating process when also every
\* worker has shut down.
RunLoopEnded(p) ==
    /\ pc[p] = "scanning"
    /\ pending = {}
    /\ p = 0 => \A w \in 1 .. MaxWorkers : pc[w] \in {"absent", "exited"}

\* pytest_sessionfinish, from its entry to final_output.
SessionFinish(p) ==
    /\ RunLoopEnded(p)
    /\ IF HasWorkerInput(p)
       THEN /\ pc' = [pc EXCEPT ![p] = "exited"]
            /\ UNCHANGED <<final_output, performed, aggregated, skipped>>
       ELSE \E order \in GlobOrders(files) :
               LET all_results == ReadAll(files, order)
               IN  /\ Did("aggregate", p)
                   /\ aggregated' = {id \in Existing(files) : files[id].kind \in {"list", "object"}}
                   /\ skipped' = {id \in Existing(files) : files[id].kind = "malformed"}
                   /\ IF all_results.junk
                      THEN /\ pc' = [pc EXCEPT ![p] = "crashed"]
                           /\ UNCHANGED final_output
                      ELSE /\ pc' = [pc EXCEPT ![p] = StepAfter("aggregate")]
                           /\ \E out \in FinalOutputs(all_results.items) :
                                 final_output' = [set |-> TRUE, doc |-> out]
    /\ UNCHANGED <<pending, files, final_json, html_report, refresh_rc, appended,
                   deleted, produced, rate_in, rate_out, test, probe, token_call, render_call>>

\* final_json.write_text(...): open("w") truncates the file ...
WriteJsonOpen(p) ==
    /\ pc[p] = "write_json"
    /\ final_json' = [kind |-> "partial", doc |-> NoDoc]
    /\ produced' = produced \cup {<<"all_reports_results", 0>>}
    /\ pc' = [pc EXCEPT ![p] = "write_json_data"]
    /\ UNCHANGED <<pending, files, final_output, html_report, refresh_rc, performed,
                   appended, aggregated, skipped, deleted, rate_in, rate_out, test, probe, token_call, render_call>>

\* ... and the text is complete when the file is closed.
WriteJsonClose(p) ==
    /\ pc[p] = "write_json_data"
    /\ final_json' = [kind |-> "report", doc |-> final_output.doc]
    /\ pc' = [pc EXCEPT ![p] = StepAfter("write_json")]
    /\ UNCHANGED <<pending, files, final_output, html_report, refresh_rc, performed,
                   appended, aggregated, skipped, deleted, produced, rate_in, rate_out, test, probe, token_call, render_call>>

\* html_report.write_text(generate_html_report(final_output, TEST_RESULTS_DIR))
\* The session does not follow the screenshot files: the document is the one of a
\* directory without any; SpecRender has the calls against directories that hold some.
Render(p) ==
    /\ pc[p] = "render"
    /\ html_report' = [kind |-> "html",
                        doc |-> GenerateHtmlReport(final_output.doc, NoScreenshots)]
    /\ produced' = produced \cup {<<"report_html", 0>>}
    /\ Did("render", p)
    /\ pc' = [pc EXCEPT ![p] = StepAfter("render")]
    /\ UNCHANGED <<pending, files, final_output, final_json, refresh_rc, appended,
                   aggregated, skipped, deleted, rate_in, rate_out, test, probe, token_call, render_call>>

\* The loop that unlinks the worker files.
Cleanup(p) ==
    /\ pc[p] = "cleanup"
    /\ LET targets == CleanupTargets(files, aggregated)
       IN  /\ deleted' = targets
           /\ files' = [id \in DOMAIN files |-> IF id \in targets THEN AbsentFile ELSE files[id]]
    /\ Did("cleanup", p)
    /\ pc' = [pc EXCEPT ![p] = StepAfter("cleanup")]
    /\ UNCHANGED <<pending, final_output, final_json, html_report, refresh_rc, appended,
                   aggregated, skipped, produced, rate_in, rate_out, test, probe, token_call, render_call>>

\* ------------------------------------------------------------- specification
\* The two artifacts of an earlier session, which no session removes.
PrevFinal == CHOOSE out \in FinalOutputs(<<StaleReport>>) : TRUE

NoRate == [set |-> FALSE, summary |-> ZeroSummary]

StaleKinds == {MalformedFile, ObjectFile, ListFile(<<StaleReport>>)}

\* The worker files an earlier session that did not clean up may have left: those of
\* its first k workers.
StaleDirs ==
    LET none == [p \in Procs |-> AbsentFile]
    IN  {none}
        \cup UNION {{[p \in Procs |-> IF p \in 1 .. k THEN g[p] ELSE AbsentFile] :
                        g \in [1 .. k -> StaleKinds]} :
                    k \in 1 .. (IF MaxStale < MaxWorkers THEN MaxStale ELSE MaxWorkers)}

\* No test function is being followed; no page scan is being followed.
NoTest == [pc |-> "idle"]

NoProbe == [pc |-> "idle"]

NoTokenCall == [pc |-> "idle"]

NoRenderCall == [pc |-> "idle"]

InitSession ==
    /\ pc = [p \in Procs |-> IF p = 0 THEN "not_started" ELSE "absent"]
    /\ pending = Reports
    /\ final_output = [set |-> FALSE, doc |-> NoDoc]
    /\ refresh_rc = -1
    /\ performed = [op \in Ops |-> [p \in Procs |-> 0]]
    /\ appended = {}
    /\ deleted = {}
    /\ produced = {}

Init ==
    /\ InitSession
    /\ files \in StaleDirs
    /\ aggregated = {}
    /\ skipped = {}
    /\ final_json = [kind |-> "report", doc |-> PrevFinal]
    /\ html_report = [kind |-> "html", doc |-> GenerateHtmlReport(PrevFinal, NoScreenshots)]
    /\ rate_in = [total_pages |-> 0, failed_pages |-> 0]
    /\ rate_out = NoRate
    /\ test = NoTest
    /\ probe = NoProbe
    /\ token_call = NoTokenCall
    /\ render_call = NoRenderCall

Next ==
    \/ \E p \in Procs : SessionStart(p)
    \/ \E n \in 0 .. MaxWorkers : Spawn(n)
    \/ \E p \in Procs : RunTest(p)
    \/ \E p \in Procs : SessionFinish(p)
    \/ \E p \in Procs : WriteJsonOpen(p)
    \/ \E p \in Procs : WriteJsonClose(p)
    \/ \E p \in Procs : Render(p)
    \/ \E p \in Procs : Cleanup(p)

Spec == Init /\ [][Next]_vars

\* ------------------------------------------------------------- the summary on its own
\* Page counts of small sessions, and of sessions of LargeSession pages and more.
RateInputs ==
    {x \in [total_pages : 0 .. MaxRateTotal, failed_pages : 0 .. MaxRateTotal] :
        x.failed_pages <= x.total_pages}
    \cup {[total_pages |-> LargeSession + k, failed_pages |-> f] :
            k \in 0 .. MaxRateTotal, f \in 0 .. MaxRateFailed}

InitRate ==
    /\ InitSession
    /\ files = [p \in Procs |-> AbsentFile]
    /\ aggregated = {}
    /\ skipped = {}
    /\ final_json = [kind |-> "report", doc |-> PrevFinal]
    /\ html_report = [kind |-> "html", doc |-> GenerateHtmlReport(PrevFinal, NoScreenshots)]
    /\ rate_in \in RateInputs
    /\ rate_out = NoRate
    /\ test = NoTest
    /\ probe = NoProbe
    /\ token_call = NoTokenCall
    /\ render_call = NoRenderCall

\* The summary dict built from the counted pages.
ComputeSummary ==
    /\ ~rate_out.set
    /\ \E s \in SummaryFor(1, rate_in.total_pages, rate_in.failed_pages) :
          rate_out' = [set |-> TRUE, summary |-> s]
    /\ UNCHANGED <<pc, pending, files, final_output, final_json, html_report, refresh_rc,
                   performed, appended, aggregated, skipped, deleted, produced, rate_in,
                   test, probe, token_call, render_call>>

NextRate == ComputeSummary

SpecRate == InitRate /\ [][NextRate]_vars

\* ------------------------------------------------------------- one worker's test function
\* test_pbi_rendering_validation of the reports 1 .. NumReports, run one after the
\* other by one worker, statement by statement.  test.file is the worker's
\* results_<worker id>.json; test.scans and test.verdicts are history.
SessionVars ==
    <<pc, pending, files, final_output, final_json, html_report, refresh_rc,
      performed, appended, aggregated, skipped, deleted, produced, rate_in, rate_out>>

NoScan == [returned |-> FALSE, pages |-> <<>>]

TestStart(file) ==
    [pc |-> "token", report |-> 1, file |-> file, stale |-> file,
     access_token |-> "unset",
     scan_results |-> <<>>, existing_results |-> <<>>,
     scans |-> [r \in Reports |-> NoScan],
     tokens |-> [r \in Reports |-> "none"],
     saved |-> <<>>,
     verdicts |-> [r \in Reports |-> "none"]]

\* The test function returns or raises: pytest records the outcome and calls the
\* function for the next report.
TestEnds(t, verdict) ==
    [t EXCEPT !.verdicts[t.report] = verdict,
              !.pc = IF t.report = NumReports THEN "finished" ELSE "token",
              !.report = IF t.report = NumReports THEN @ ELSE @ + 1,
              !.scan_results = <<>>,
              !.existing_results = <<>>]

Assertion(failed_pages) == IF failed_pages = 0 THEN "passed" ELSE "failed"

\* The session-scoped fixture access_token: pytest runs get_access_token for the first
\* test that asks for it and keeps the outcome, the token or the exception raised, for
\* every later test of the same worker.
AccessTokenCachedNever(cached) == FALSE

AccessTokenCached(cached) == cached # "unset"

TestAccessToken ==
    /\ test.pc = "token"
    /\ \E acquired \in BOOLEAN :
          LET cached == AccessTokenCached(test.access_token)
              outcome == IF cached THEN test.access_token
                         ELSE IF acquired THEN "ok" ELSE "failed"
              t == [test EXCEPT !.access_token = outcome]
          IN  test' = IF outcome = "ok"
                      THEN [t EXCEPT !.pc = "embed_token"]
                      ELSE TestEnds([t EXCEPT !.tokens[test.report] =
                                                 IF cached THEN "cached" ELSE "access"],
                                    "error")
    /\ UNCHANGED <<SessionVars, probe, token_call, render_call>>

\* create_report_embed_info and get_report_embed_token, which raise on a failure.
TestEmbedToken ==
    /\ test.pc = "embed_token"
    /\ \E ok \in BOOLEAN :
          test' = IF ok
                  THEN [test EXCEPT !.pc = "scan", !.tokens[test.report] = "ok"]
                  ELSE TestEnds([test EXCEPT !.tokens[test.report] = "embed"], "error")
    /\ UNCHANGED <<SessionVars, probe, token_call, render_call>>

TestScan ==
    /\ test.pc = "scan"
    /\ \E pages \in PageShapes :
          test' = [test EXCEPT !.pc = "screenshots",
                               !.scan_results = pages,
                               !.scans[test.report] = [returned |-> TRUE, pages |-> pages]]
    /\ UNCHANGED <<SessionVars, probe, token_call, render_call>>

TestScreenshots ==
    /\ test.pc = "screenshots"
    /\ \/ test' = [test EXCEPT !.pc = "save"]
       \/ /\ FailedPages(test.scan_results) # <<>>
          /\ test' = TestEnds(test, "error")
    /\ UNCHANGED <<SessionVars, probe, token_call, render_call>>

TestRead ==
    /\ test.pc = "save"
    /\ test' =
          IF test.file.kind \in {"malformed", "object"}
          THEN TestEnds(test, "error")
          ELSE [test EXCEPT !.pc = "write",
                            !.existing_results =
                                AppendResult(test.file.items,
                                             ResultData(test.report, test.scan_results, 1))]
    /\ UNCHANGED <<SessionVars, probe, token_call, render_call>>

TestWriteOpen ==
    /\ test.pc = "write"
    /\ test' = [test EXCEPT !.pc = "write_data", !.file = MalformedFile]
    /\ UNCHANGED <<SessionVars, probe, token_call, render_call>>

TestWriteClose ==
    /\ test.pc = "write_data"
    /\ test' = [test EXCEPT !.pc = "assert",
                             !.file = ListFile(test.existing_results),
                             !.saved = Append(@, ResultData(test.report, test.scan_results, 1))]
    /\ UNCHANGED <<SessionVars, probe, token_call, render_call>>

TestAssert ==
    /\ test.pc = "assert"
    /\ test' = TestEnds(test, Assertion(FailedCount(test.scan_results)))
    /\ UNCHANGED <<SessionVars, probe, token_call, render_call>>

InitTest ==
    /\ InitSession
    /\ files = [p \in Procs |-> AbsentFile]
    /\ aggregated = {}
    /\ skipped = {}
    /\ final_json = [kind |-> "report", doc |-> PrevFinal]
    /\ html_report = [kind |-> "html", doc |-> GenerateHtmlReport(PrevFinal, NoScreenshots)]
    /\ rate_in = [total_pages |-> 0, failed_pages |-> 0]
    /\ rate_out = NoRate
    /\ test \in {TestStart(file) : file \in {AbsentFile} \cup StaleKinds}
    /\ probe = NoProbe
    /\ token_call = NoTokenCall
    /\ render_call = NoRenderCall

\* The worker process is killed: whatever statement it was at, nothing follows.
TestKill ==
    /\ test.pc \notin {"finished", "killed"}
    /\ test' = [test EXCEPT !.pc = "killed"]
    /\ UNCHANGED <<SessionVars, probe, token_call, render_call>>

NextTest ==
    \/ TestAccessToken
    \/ TestEmbedToken
    \/ TestScan
    \/ TestScreenshots
    \/ TestRead
    \/ TestWriteOpen
    \/ TestWriteClose
    \/ TestAssert
    \/ TestKill

SpecTest == InitTest /\ [][NextTest]_vars

\* ------------------------------------------------------------- the page scan
\* The loop over the pages inside page.evaluate, event by event.  Time is counted in
\* seconds since the wait of the current page began.  A visual's name is its index in
\* the list getVisuals returned; name 0 is a visual that list does not hold.  Keys and
\* messages are records, so that a display title can be told from, or be equal to, a
\* report-error key.
NoTitle == [kind |-> "none", id |-> 0]

NameKey(name) == [kind |-> "name", id |-> name]

ErrorKey(n) == [kind |-> "report-error", id |-> n]

Titles == {NoTitle, [kind |-> "title", id |-> 1], ErrorKey(1)}

TimeoutMessage == [kind |-> "Visual did not render within timeout", id |-> 0]

UnknownMessage == [kind |-> "Unknown Power BI error", id |-> 0]

\* event?.detail?.message || 'Unknown Power BI error'; message 0 is a missing one.
MessageOf(message) ==
    IF message = 0 THEN UnknownMessage ELSE [kind |-> "message", id |-> message]

EventMessages == 0 .. 1

\* How many pages report.getPages() returns.
ScanPageCounts == 1 .. 2

\* What getVisuals returns, by the visuals' names.  A title is not read before the
\* loop of line 171 (visualMap is never read), and the model draws it there.
VisualLists(limit) == {[i \in 1 .. n |-> [name |-> i]] : n \in 0 .. limit}

WithTitles(visuals) ==
    {[i \in 1 .. Len(visuals) |-> [name |-> visuals[i].name, title |-> titles[i]]] :
        titles \in [1 .. Len(visuals) -> Titles]}

\* v.title || v.name
Label(v) == IF v.title = NoTitle THEN NameKey(v.name) ELSE v.title

PutKeepsEntry(pageErrors, key, value) ==
    [k \in DOMAIN pageErrors \cup {key} |->
        IF k \in DOMAIN pageErrors THEN pageErrors[k] ELSE value]

\* pageErrors[key] = value
Put(pageErrors, key, value) ==
    [k \in DOMAIN pageErrors \cup {key} |-> IF k = key THEN value ELSE pageErrors[k]]

NoErrors == [k \in {} |-> TimeoutMessage]

UnrenderedKeyedByName(v) == NameKey(v.name)

UnrenderedKey(v) == Label(v)

RECURSIVE UnrenderedFrom(_, _, _, _)
UnrenderedFrom(visuals, renderedSet, i, pageErrors) ==
    IF i > Len(visuals) THEN pageErrors
    ELSE UnrenderedFrom(visuals, renderedSet, i + 1,
            IF visuals[i].name \notin renderedSet
            THEN Put(pageErrors, UnrenderedKey(visuals[i]), TimeoutMessage)
            ELSE pageErrors)

ErrorNumberFromZero(i) == i - 1

ErrorNumber(i) == i

RECURSIVE ReportErrorsFrom(_, _, _)
ReportErrorsFrom(reportErrors, i, pageErrors) ==
    IF i > Len(reportErrors) THEN pageErrors
    ELSE ReportErrorsFrom(reportErrors, i + 1,
            Put(pageErrors, ErrorKey(ErrorNumber(i)), reportErrors[i]))

PageErrors(visuals, renderedSet, reportErrors) ==
    ReportErrorsFrom(reportErrors, 1, UnrenderedFrom(visuals, renderedSet, 1, NoErrors))

WaitOverStrict(errorDetected, renderedSet, visuals) ==
    errorDetected \/ Cardinality(renderedSet) > Len(visuals)

WaitOver(errorDetected, renderedSet, visuals) ==
    errorDetected \/ Cardinality(renderedSet) >= Len(visuals)

TimerDueNever(clock) == FALSE

TimerDue(clock) == clock >= HardTimeout

NoLast == [set |-> FALSE]

ProbeStart(n) ==
    [pc |-> "get_visuals", pages |-> n, page |-> 1,
     visuals |-> <<>>, renderedSet |-> {}, reportErrors |-> <<>>, errorDetected |-> FALSE,
     clock |-> 0,
     allPages |-> <<>>, failedPages |-> <<>>, heard |-> <<>>, last |-> NoLast]

RECURSIVE TotalLen(_)
TotalLen(seqs) == IF seqs = <<>> THEN 0 ELSE Len(Head(seqs)) + TotalLen(Tail(seqs))

RECURSIVE VisualsSoFar(_)
VisualsSoFar(allPages) ==
    IF allPages = <<>> THEN 0 ELSE Len(Head(allPages).visuals) + VisualsSoFar(Tail(allPages))

\* Lines 123-152: the page's visuals, its fresh collections, the listeners attached,
\* and setActive called.
PageStart ==
    /\ probe.pc = "get_visuals"
    /\ \E visuals \in VisualLists(MaxVisuals - VisualsSoFar(probe.allPages)) :
          probe' = [probe EXCEPT !.pc = "activating",
                                 !.visuals = visuals,
                                 !.renderedSet = {},
                                 !.reportErrors = <<>>,
                                 !.errorDetected = FALSE,
                                 !.clock = 0,
                                 !.heard = Append(@, <<>>),
                                 !.last = NoLast]
    /\ UNCHANGED <<SessionVars, test, token_call, render_call>>

Listening == probe.pc \in {"activating", "waiting"}

\* onRendered.  Name -1 is an event without a name.
VisualRendered ==
    /\ Listening
    /\ \E visualName \in -1 .. Len(probe.visuals) :
          probe' = IF visualName # -1
                   THEN [probe EXCEPT !.renderedSet = @ \cup {visualName}]
                   ELSE probe
    /\ UNCHANGED <<SessionVars, test, token_call, render_call>>

\* onError.
ErrorEvent ==
    /\ Listening
    /\ TotalLen(probe.heard) < MaxErrors
    /\ \E message \in EventMessages :
          LET msg == MessageOf(message)
          IN  probe' = [probe EXCEPT !.reportErrors = Append(@, msg),
                                     !.errorDetected = TRUE,
                                     !.heard[probe.page] = Append(@, msg)]
    /\ UNCHANGED <<SessionVars, test, token_call, render_call>>

\* Lines 167-203 for the page whose wait has ended, then the next page or the return.
\* last is history: what ended the wait, whether the 15 seconds had passed by then, and
\* what the loops then read.
PageEnd(pr, ended_by) ==
    {LET pageErrors == PageErrors(visuals, pr.renderedSet, pr.reportErrors)
         info == [errors |-> pageErrors,
                  visuals |-> [i \in 1 .. Len(visuals) |->
                                  [title |-> Label(visuals[i]),
                                   rendered |-> visuals[i].name \in pr.renderedSet]]]
     IN  [pr EXCEPT !.allPages = Append(@, info),
                    !.failedPages = IF DOMAIN pageErrors # {} THEN Append(@, pr.page) ELSE @,
                    !.pc = IF pr.page = pr.pages THEN "returned" ELSE "get_visuals",
                    !.page = IF pr.page = pr.pages THEN @ ELSE @ + 1,
                    !.visuals = <<>>,
                    !.renderedSet = {},
                    !.reportErrors = <<>>,
                    !.errorDetected = FALSE,
                    !.clock = 0,
                    !.last = [set |-> TRUE, page |-> pr.page, visuals |-> visuals,
                              renderedSet |-> pr.renderedSet,
                              reportErrors |-> pr.reportErrors,
                              errorDetected |-> pr.errorDetected,
                              ended_by |-> ended_by, timer_due |-> TimerDue(pr.clock)]]
        : visuals \in WithTitles(pr.visuals)}

\* check(); at is "first check" for the call of line 162, "check" for a timer's.
Check(pr, at) ==
    IF WaitOver(pr.errorDetected, pr.renderedSet, pr.visuals)
    THEN PageEnd(pr, at)
    ELSE {[pr EXCEPT !.pc = "waiting"]}

\* setActive has resolved; the race is built and check() runs for the first time.
FirstCheck ==
    /\ probe.pc = "activating"
    /\ probe' \in Check(probe, "first check")
    /\ UNCHANGED <<SessionVars, test, token_call, render_call>>

\* A second passes and setTimeout(check, 1000) fires; when the hard timer is due at
\* the same time, either of the two callbacks runs first.
Poll ==
    /\ probe.pc = "waiting"
    /\ ~TimerDue(probe.clock)
    /\ probe.clock < MaxClock
    /\ LET later == [probe EXCEPT !.clock = @ + PollInterval]
       IN  \/ probe' \in Check(later, "check")
           \/ /\ TimerDue(later.clock)
              /\ probe' \in PageEnd(later, "timeout")
    /\ UNCHANGED <<SessionVars, test, token_call, render_call>>

\* setTimeout(resolve, 15000) fires.
Timeout ==
    /\ probe.pc = "waiting"
    /\ TimerDue(probe.clock)
    /\ probe' \in PageEnd(probe, "timeout")
    /\ UNCHANGED <<SessionVars, test, token_call, render_call>>

InitProbe ==
    /\ InitSession
    /\ files = [p \in Procs |-> AbsentFile]
    /\ aggregated = {}
    /\ skipped = {}
    /\ final_json = [kind |-> "report", doc |-> PrevFinal]
    /\ html_report = [kind |-> "html", doc |-> GenerateHtmlReport(PrevFinal, NoScreenshots)]
    /\ rate_in = [total_pages |-> 0, failed_pages |-> 0]
    /\ rate_out = NoRate
    /\ test = NoTest
    /\ probe \in {ProbeStart(n) : n \in ScanPageCounts}
    /\ token_call = NoTokenCall
    /\ render_call = NoRenderCall

NextProbe ==
    \/ PageStart
    \/ VisualRendered
    \/ ErrorEvent
    \/ FirstCheck
    \/ Poll
    \/ Timeout

SpecProbe == InitProbe /\ [][NextProbe]_vars

\* ------------------------------------------------------------- the embed-token request
\* get_report_embed_token, from its call to its return.  An optional string is "" when
\* it is None or empty (both are false in a condition) and a name otherwise.
Idle == <<pc, pending, files, final_output, final_json, html_report, refresh_rc,
          performed, appended, aggregated, skipped, deleted, produced, rate_in, rate_out,
          test, probe>>

DatasetIds == {"", "dataset-1"}

Roles == {"", "Viewer"}

DefaultRoles == {"", "DefaultRole"}

ReportEmbedInfos ==
    [dataset_id : DatasetIds,
     role : Roles,
     is_effective_identity_required : BOOLEAN,
     is_effective_identity_roles_required : BOOLEAN]

RoleDefaultFirst(role, default_rls_role) ==
    IF default_rls_role # "" THEN default_rls_role ELSE role

\* role = report_info.role; if not role: role = os.environ.get("DEFAULT_RLS_ROLE")
Role(role, default_rls_role) == IF role = "" THEN default_rls_role ELSE role

\* identity, with "roles" only if the dataset requires roles and there is a role.
Identity(report_info, role) ==
    LET identity == [username |-> "TestUser", datasets |-> <<report_info.dataset_id>>]
    IN  IF report_info.is_effective_identity_roles_required /\ role # ""
        THEN [username |-> identity.username, datasets |-> identity.datasets,
              roles |-> <<role>>]
        ELSE identity

\* body, with "identities" only if the dataset requires an effective identity and
\* the report names its dataset.
Body(report_info, default_rls_role) ==
    LET body == [accessLevel |-> "View"]
    IN  IF report_info.is_effective_identity_required /\ report_info.dataset_id # ""
        THEN [accessLevel |-> body.accessLevel,
              identities |-> <<Identity(report_info,
                                        Role(report_info.role, default_rls_role))>>]
        ELSE body

\* response: not ok, ok without a token, ok with a token.
Responses == {"not_ok", "no_token", "token"}

TokenCallStart(report_info, default_rls_role) ==
    [pc |-> "called", report_info |-> report_info, default_rls_role |-> default_rls_role,
     body |-> [accessLevel |-> "none"]]

\* requests.post(url, json=body, headers=headers)
TokenPost ==
    /\ token_call.pc = "called"
    /\ token_call' = [token_call EXCEPT
                         !.pc = "posted",
                         !.body = Body(token_call.report_info, token_call.default_rls_role)]
    /\ UNCHANGED <<Idle, render_call>>

\* The response: the token is returned, or RuntimeError is raised.
TokenResponse ==
    /\ token_call.pc = "posted"
    /\ \E response \in Responses :
          token_call' = [token_call EXCEPT
                            !.pc = IF response = "token" THEN "returned" ELSE "raised"]
    /\ UNCHANGED <<Idle, render_call>>

InitToken ==
    /\ InitSession
    /\ files = [p \in Procs |-> AbsentFile]
    /\ aggregated = {}
    /\ skipped = {}
    /\ final_json = [kind |-> "report", doc |-> PrevFinal]
    /\ html_report = [kind |-> "html", doc |-> GenerateHtmlReport(PrevFinal, NoScreenshots)]
    /\ rate_in = [total_pages |-> 0, failed_pages |-> 0]
    /\ rate_out = NoRate
    /\ test = NoTest
    /\ probe = NoProbe
    /\ token_call \in {TokenCallStart(report_info, default_rls_role) :
                          report_info \in ReportEmbedInfos,
                          default_rls_role \in DefaultRoles}
    /\ render_call = NoRenderCall

NextToken == TokenPost \/ TokenResponse

SpecToken == InitToken /\ [][NextToken]_vars

\* ------------------------------------------------------------- the renderer's calls
\* generate_html_report called twice with one final_output against one results
\* directory.  A page's error mapping is the set of its (key, message) pairs.
TwoErrors ==
    {<<"Sales", "Visual did not render within timeout">>,
     <<"report-error-1", "Unknown error">>}

RenderErrorMaps == {{}, TwoErrors}

RenderReport(r, errors) ==
    ResultData(r,
               [j \in 1 .. Len(errors) |->
                   [errors |-> errors[j], serviceUrl |-> [report |-> r, page |-> j]]],
               1)

CardCounts == 0 .. 2

RenderErrors == UNION {[1 .. n -> RenderErrorMaps] : n \in 0 .. MaxRenderPages}

RenderReports ==
    UNION {{[r \in 1 .. n |-> RenderReport(r, errors[r])] :
               errors \in [1 .. n -> RenderErrors]} : n \in CardCounts}

WorkerIds == 0 .. 1

ScreenshotFiles == [page : 1 .. MaxRenderPages, worker : WorkerIds]

\* The screenshots a results directory may hold: none, one, or two.
ScreenshotDirs == {d \in SUBSET ScreenshotFiles : Cardinality(d) <= Cardinality(WorkerIds)}

RenderCallStart(final, dir) ==
    [pc |-> "called", final_output |-> final, results_dir |-> dir, documents |-> <<>>]

\* Path.glob lists a directory in no order the caller can rely on.
Listings(dir) == Perms(dir)

RenderOnce ==
    /\ render_call.pc = "called"
    /\ \E listing \in Listings(render_call.results_dir) :
          render_call' =
              [render_call EXCEPT
                  !.pc = "rendered",
                  !.documents = <<GenerateHtmlReport(render_call.final_output, listing)>>]
    /\ UNCHANGED <<Idle, token_call>>

RenderAgain ==
    /\ render_call.pc = "rendered"
    /\ \E listing \in Listings(render_call.results_dir) :
          render_call' =
              [render_call EXCEPT
                  !.pc = "rendered_twice",
                  !.documents =
                      Append(@, GenerateHtmlReport(render_call.final_output, listing))]
    /\ UNCHANGED <<Idle, token_call>>

InitRender ==
    /\ InitSession
    /\ files = [p \in Procs |-> AbsentFile]
    /\ aggregated = {}
    /\ skipped = {}
    /\ final_json = [kind |-> "report", doc |-> PrevFinal]
    /\ html_report = [kind |-> "html", doc |-> GenerateHtmlReport(PrevFinal, NoScreenshots)]
    /\ rate_in = [total_pages |-> 0, failed_pages |-> 0]
    /\ rate_out = NoRate
    /\ test = NoTest
    /\ probe = NoProbe
    /\ token_call = NoTokenCall
    /\ render_call \in {RenderCallStart(final, dir) :
                           final \in UNION {FinalOutputs(reports) : reports \in RenderReports},
                           dir \in ScreenshotDirs}

NextRender == RenderOnce \/ RenderAgain

SpecRender == InitRender /\ [][NextRender]_vars

\* ------------------------------------------------------------- helpers of the claims
Count(seq, x) == Cardinality({i \in 1 .. Len(seq) : seq[i] = x})

\* Every place of every worker file that holds a record.
Slots == UNION {{<<id, i>> : i \in 1 .. Len(files[id].items)} : id \in Procs}

SlotCount(x) == Cardinality({sl \in Slots : files[sl[1]].items[sl[2]] = x})

RECURSIVE ConcatFiles(_)
ConcatFiles(id) ==
    IF id > MaxWorkers THEN <<>> ELSE files[id].items \o ConcatFiles(id + 1)

SortKey(rr) == rr.stamp * (NumReports + 1) + rr.reportId

RECURSIVE InsertSorted(_, _)
InsertSorted(seq, x) ==
    IF seq = <<>> THEN <<x>>
    ELSE IF SortKey(x) < SortKey(Head(seq)) THEN <<x>> \o seq
    ELSE <<Head(seq)>> \o InsertSorted(Tail(seq), x)

RECURSIVE SortReports(_)
SortReports(seq) ==
    IF seq = <<>> THEN <<>> ELSE InsertSorted(SortReports(Tail(seq)), Head(seq))

RECURSIVE PageTotal(_)
PageTotal(reports) ==
    IF reports = <<>> THEN 0 ELSE Len(Head(reports).pages) + PageTotal(Tail(reports))

\* The coordinating process holds final_output and has not yet unlinked a worker file.
FilesAsRead == pc[0] \in {"write_json", "write_json_data", "render", "cleanup"}

\* ------------------------------------------------------------- claims
\* C1: once the coordinating process has aggregated, and no worker file was
\* unparseable, every result_data a test of this session appended is in the final
\* reports exactly once, in final_output and then in the written artifact.
C1_NoLossNoDuplication ==
    (final_output.set /\ skipped = {}) =>
        /\ \A rr \in appended : Count(final_output.doc.reports, rr) = 1
        /\ pc[0] = "done" =>
              \A rr \in appended : Count(final_json.doc.reports, rr) = 1

\* Two workers have each saved a result, and the session has ended.
C1_Witness ==
    /\ pc[0] = "done"
    /\ skipped = {}
    /\ {<<"results", 1>>, <<"results", 2>>} \subseteq produced
    /\ Cardinality(appended) = 2

\* C2: in every written FinalReport the summary agrees with the reports: totalReports
\* is their number, totalPages the sum of their page counts, and failedPages and
\* passedPages are non-negative and add up to totalPages.
C2_SummaryConsistent ==
    final_json.kind = "report" =>
        LET sm == final_json.doc.summary
        IN  /\ sm.totalReports = Len(final_json.doc.reports)
            /\ sm.totalPages = PageTotal(final_json.doc.reports)
            /\ sm.failedPages + sm.passedPages = sm.totalPages
            /\ sm.failedPages >= 0
            /\ sm.passedPages >= 0

\* The session wrote a FinalReport of two pages, one of them failed.
C2_Witness ==
    /\ pc[0] = "done"
    /\ final_json.doc.summary.totalPages = 2
    /\ final_json.doc.summary.failedPages = 1
    /\ Len(final_json.doc.reports) = 2

\* C3 as stated: passRate is 0 for no page, otherwise the ratio rounded to two
\* decimals, between 0 and 100, and 100 exactly when no page failed.
C3_RateAsClaimed ==
    rate_out.set =>
        LET sm == rate_out.summary
            t == rate_in.total_pages
            f == rate_in.failed_pages
        IN  /\ t = 0 => sm.passRate = 0
            /\ sm.passRate = 10000 <=> (f = 0 /\ t > 0)

\* C3 as amended: passRate is 0 for no page; otherwise it is a hundredth nearest to
\* passedPages / totalPages * 100; it lies between 0 and 100; it is 100 whenever no
\* page failed, and when it is 100 the failed pages are at most one in 20000.
C3_Rate ==
    rate_out.set =>
        LET sm == rate_out.summary
            t == rate_in.total_pages
            f == rate_in.failed_pages
            err == sm.passRate * t - (t - f) * 10000
        IN  /\ t = 0 => sm.passRate = 0
            /\ t > 0 => (2 * err <= t /\ -2 * err <= t)
            /\ sm.passRate >= 0 /\ sm.passRate <= 10000
            /\ (f = 0 /\ t > 0) => sm.passRate = 10000
            /\ sm.passRate = 10000 => (t > 0 /\ f * 20000 <= t)

\* One page of three failed: 66.67.
C3_Witness ==
    /\ rate_out.set
    /\ rate_in.total_pages = 3
    /\ rate_in.failed_pages = 1
    /\ rate_out.summary.passRate = 6667

\* C4: with exactly one unparseable worker file and every other file a list of
\* results, aggregation does not abort and the reports are exactly the records of the
\* other files: each as often as the files hold it, and nothing else.
C4_MalformedSkipped ==
    ( /\ pc[0] \in {"write_json", "write_json_data", "render", "cleanup", "crashed"}
      /\ Cardinality({id \in Procs : files[id].kind = "malformed"}) = 1
      /\ \A id \in Procs : files[id].kind \in {"absent", "malformed", "list"} ) =>
        /\ pc[0] # "crashed"
        /\ final_output.set
        /\ Len(final_output.doc.reports) = Cardinality(Slots)
        /\ \A sl \in Slots :
              LET rr == files[sl[1]].items[sl[2]]
              IN  Count(final_output.doc.reports, rr) = SlotCount(rr)

\* One file is unparseable, another holds two results, and both went into the reports.
C4_Witness ==
    /\ pc[0] = "cleanup"
    /\ Cardinality({id \in Procs : files[id].kind = "malformed"}) = 1
    /\ \E id \in Procs : files[id].kind = "list" /\ Len(files[id].items) = 2
    /\ Len(final_output.doc.reports) = 2

\* C5: the summary is the one the aggregator computes from the same records put in
\* one file in a fixed order: neither the order of the glob nor the split of the
\* records over the worker files changes a count.
C5_OrderIndependent ==
    FilesAsRead =>
        final_output.doc.summary \in
            {out.summary : out \in FinalOutputs(SortReports(ConcatFiles(0)))}

\* Two files were read in an order that is not the fixed one, and a page failed.
C5_Witness ==
    /\ FilesAsRead
    /\ Cardinality({id \in Procs : files[id].kind = "list"}) = 2
    /\ final_output.doc.reports # SortReports(ConcatFiles(0))
    /\ final_output.doc.summary.failedPages = 1
    /\ final_output.doc.summary.totalPages = 2

\* C6 as stated: after the session the unlinked files are exactly the aggregated ones.
C6_DeletedAreAggregated ==
    pc[0] = "done" => deleted = aggregated

\* C6 as amended: after the session every worker file the glob matched is unlinked,
\* the aggregated ones and the ones skipped as unparseable, and none is left.
C6_AllWorkerFilesDeleted ==
    pc[0] = "done" =>
        /\ aggregated \subseteq deleted
        /\ deleted = aggregated \cup skipped
        /\ Existing(files) = {}

\* A session that skipped one file and aggregated another has ended.
C6_Witness ==
    /\ pc[0] = "done"
    /\ skipped # {}
    /\ aggregated # {}
    /\ deleted # {}

\* C7: a reader of all_reports_results.json always finds a complete FinalReport, the
\* earlier session's or this one's.
C7_AtomicWrite ==
    /\ final_json.kind = "report"
    /\ final_json.doc = PrevFinal \/ final_json.doc = final_output.doc

\* C8: no worker performs the metadata refresh, the aggregation, the rendering or the
\* cleanup; the coordinating process performs none of them twice, and each of them
\* once in a session that has run to its end.
C8_OncePerSession ==
    \A op \in Ops :
        /\ \A w \in 1 .. MaxWorkers : performed[op][w] = 0
        /\ performed[op][0] <= 1
        /\ pc[0] = "done" => performed[op][0] = 1

\* A session with two workers, whose hooks both ran, has ended.
C8_Witness ==
    /\ pc[0] = "done"
    /\ \A w \in 1 .. 2 : pc[w] = "exited"
    /\ \A op \in Ops : performed[op][0] = 1

\* C9: when the metadata script exits non-zero the session is aborted: no worker is
\* started, no test runs, nothing is aggregated or rendered, and no file is written.
C9_RefreshFailureAborts ==
    refresh_rc > 0 =>
        /\ pc[0] = "aborted"
        /\ Workers = {}
        /\ pending = Reports
        /\ appended = {}
        /\ produced = {}
        /\ ~final_output.set
        /\ \A op \in Ops \ {"refresh"} : \A p \in Procs : performed[op][p] = 0

\* The metadata script has failed.
C9_Witness ==
    /\ refresh_rc = 1
    /\ pc[0] = "aborted"
    /\ performed["refresh"][0] = 1

\* NOT_STARTED 0, METADATA_REFRESHED 1, SCANNING 2, AGGREGATING 3, RENDERED 4, DONE 5.
Phase(at) ==
    CASE at \in {"not_started", "aborted"} -> 0
      [] at = "refreshed" -> 1
      [] at = "scanning" -> 2
      [] at \in {"write_json", "write_json_data", "render", "crashed"} -> 3
      [] at = "cleanup" -> 4
      [] OTHER -> 5

C10_Order ==
    /\ (pending # Reports \/ Workers # {}) => (refresh_rc = 0 /\ Phase(pc[0]) >= 2)
    /\ Phase(pc[0]) >= 3 =>
          /\ pending = {}
          /\ \A w \in 1 .. MaxWorkers : pc[w] \in {"absent", "exited"}
    /\ performed["render"][0] > 0 =>
          (final_json.kind = "report" /\ final_json.doc = final_output.doc)
    /\ Phase(pc[0]) = 4 => performed["render"][0] > 0

C10_Step ==
    /\ Phase(pc'[0]) \in {Phase(pc[0]), Phase(pc[0]) + 1}
    /\ (Phase(pc[0]) >= 3 /\ files' # files) => pc[0] = "cleanup"

\* C10: the session's phase only ever advances by one step along NOT_STARTED,
\* METADATA_REFRESHED, SCANNING, AGGREGATING, RENDERED, DONE; no test runs and no
\* worker exists before the refresh succeeded; from aggregation on no test is left,
\* every worker has finished and no worker file changes until the cleanup; rendering
\* happens only with the complete JSON artifact written.
C10_Lifecycle == []C10_Order /\ [][C10_Step]_vars

\* A session in which workers saved results has gone through every phase.
C10_Witness ==
    /\ pc[0] = "done"
    /\ Workers # {}
    /\ appended # {}
    /\ html_report.doc = GenerateHtmlReport(final_json.doc, NoScreenshots)

\* C11: once the metadata refresh has succeeded, the session does not stop before its
\* terminal state: whenever no step of the session is left to take, the coordinating
\* process is done and this session has written both all_reports_results.json, complete,
\* and report.html, whatever the pages of the scanned reports were.
C11_ReachesTerminal ==
    (refresh_rc = 0 /\ ~ENABLED Next) =>
        /\ pc[0] = "done"
        /\ final_json = [kind |-> "report", doc |-> final_output.doc]
        /\ {<<"all_reports_results", 0>>, <<"report_html", 0>>} \subseteq produced
        /\ html_report = [kind |-> "html", doc |-> GenerateHtmlReport(final_output.doc, NoScreenshots)]

\* C12: the test of a report ends with a failed assertion exactly when one of the
\* report's scanned pages has a non-empty error mapping, and the result_data of such a
\* report, every page of it, is in the worker file when its test has ended.
C12_FailsIffFailingPage ==
    \A r \in Reports :
        test.verdicts[r] # "none" =>
            LET failing == test.scans[r].returned /\ FailedCount(test.scans[r].pages) > 0
            IN  /\ test.verdicts[r] = "failed" <=> failing
                /\ failing =>
                      /\ test.file.kind = "list"
                      /\ Count(test.file.items, ResultData(r, test.scans[r].pages, 1)) = 1

\* ------------------------------------------------------------- helpers of the scan's claims
\* The error mapping recorded for the page whose wait ended last.
LastErrors == probe.allPages[probe.last.page].errors

Unrendered(visuals, renderedSet) ==
    {i \in 1 .. Len(visuals) : visuals[i].name \notin renderedSet}

ErrorKeys(k) == {ErrorKey(n) : n \in 1 .. k}

\* C13: a page's wait ends only with an error event arrived, or with every visual
\* getVisuals returned in the rendered set, or with the 15 seconds passed; so a wait
\* that ends before the timeout and without an error leaves no such visual unrendered.
C13_WaitEndsOnlyWhen ==
    probe.last.set =>
        \/ Len(probe.last.reportErrors) > 0
        \/ Unrendered(probe.last.visuals, probe.last.renderedSet) = {}
        \/ probe.last.timer_due

\* C14: the wait of a page never lasts beyond the 15 seconds of the hard timer: while
\* it lasts at most 15 seconds have passed, and when they have, the hard timer is
\* there to end it, whatever events arrived.
C14_WaitBounded ==
    probe.pc = "waiting" =>
        /\ probe.clock <= HardTimeout
        /\ probe.clock = HardTimeout => ENABLED Timeout

\* No event at all arrived for a page with a visual, and the hard timer ended its wait.
C14_Witness ==
    /\ probe.last.set
    /\ probe.last.ended_by = "timeout"
    /\ probe.last.timer_due
    /\ probe.last.renderedSet = {}
    /\ probe.last.reportErrors = <<>>
    /\ Len(probe.last.visuals) > 0

\* C15 as stated: after the wait the page's error mapping holds title-or-name ->
\* "Visual did not render within timeout" for every visual not in the rendered set,
\* and no such entry for a visual in the rendered set.
C15_TimeoutEntriesAsClaimed ==
    probe.last.set =>
        \A i \in 1 .. Len(probe.last.visuals) :
            LET v == probe.last.visuals[i]
                entry == /\ Label(v) \in DOMAIN LastErrors
                         /\ LastErrors[Label(v)] = TimeoutMessage
            IN  entry <=> v.name \notin probe.last.renderedSet

\* C15 as amended: after the wait the title-or-name of every visual not in the rendered
\* set is a key of the page's error mapping; it maps to "Visual did not render within
\* timeout", unless it is the key report-error-n of an error event that arrived, which
\* then holds that event's message; and a key maps to the timeout message only if it
\* is the title-or-name of a visual not in the rendered set.  Visuals of one
\* title-or-name share one entry.
C15_TimeoutEntries ==
    probe.last.set =>
        LET visuals == probe.last.visuals
            missing == Unrendered(visuals, probe.last.renderedSet)
            k == Len(probe.last.reportErrors)
        IN  /\ \A i \in missing :
                  /\ Label(visuals[i]) \in DOMAIN LastErrors
                  /\ LastErrors[Label(visuals[i])] =
                        IF Label(visuals[i]) \in ErrorKeys(k)
                        THEN probe.last.reportErrors[Label(visuals[i]).id]
                        ELSE TimeoutMessage
            /\ \A key \in DOMAIN LastErrors :
                  LastErrors[key] = TimeoutMessage =>
                      \E i \in missing : Label(visuals[i]) = key

\* Of two visuals with one title the first rendered and the second did not: the
\* mapping's only entry is keyed by that title.
C15_Witness ==
    /\ probe.last.set
    /\ Len(probe.last.visuals) = 2
    /\ probe.last.visuals[1].title = probe.last.visuals[2].title
    /\ probe.last.visuals[1].title.kind = "title"
    /\ probe.last.renderedSet = {1}
    /\ DOMAIN LastErrors = {probe.last.visuals[2].title}

C17_NoVisualsAsClaimed ==
    (probe.last.set /\ Len(probe.last.visuals) = 0) =>
        /\ probe.last.ended_by = "first check"
        /\ DOMAIN LastErrors = {}
        /\ \A i \in 1 .. Len(probe.failedPages) : probe.failedPages[i] # probe.last.page

\* C17 as amended: the wait of a page without visuals ends at the first check, before
\* any timer; its error mapping holds no timeout entry, only report-error-1 .. k for
\* the k error events that arrived while the page was being activated; the page is
\* recorded as passed, and is not in failedPages, exactly when there was none.
C17_NoVisuals ==
    (probe.last.set /\ Len(probe.last.visuals) = 0) =>
        /\ probe.last.ended_by = "first check"
        /\ ~probe.last.timer_due
        /\ DOMAIN LastErrors = ErrorKeys(Len(probe.last.reportErrors))
        /\ (\E i \in 1 .. Len(probe.failedPages) : probe.failedPages[i] = probe.last.page)
              <=> probe.last.reportErrors # <<>>

\* A page without visuals and without an error event has been recorded as passed.
C17_Witness ==
    /\ probe.last.set
    /\ Len(probe.last.visuals) = 0
    /\ probe.last.reportErrors = <<>>
    /\ probe.last.ended_by = "first check"
    /\ DOMAIN LastErrors = {}
    /\ probe.failedPages = <<>>

\* ------------------------------------------------------------- helpers of the session's claims
FailingPages(rr) == {j \in 1 .. Len(rr.pages) : rr.pages[j].errors # {}}

RECURSIVE FailingTotal(_)
FailingTotal(reports) ==
    IF reports = <<>> THEN 0
    ELSE Cardinality(FailingPages(Head(reports))) + FailingTotal(Tail(reports))

Elements(seq) == {seq[i] : i \in 1 .. Len(seq)}

ThisSession(rr) == rr.stamp = 1

\* C18: in what a session aggregated and rendered, a page is in its report's
\* failedPages list, is counted in summary.failedPages, and has a failed-page tile in
\* the card of its report, exactly when its error mapping is not empty.
C18_OneFailurePredicate ==
    pc[0] \in {"cleanup", "done"} =>
        LET reports == final_output.doc.reports
            failing == SelectSeq(reports, LAMBDA rr : FailingPages(rr) # {})
            cards == html_report.doc.failed_sections
        IN  /\ \A i \in 1 .. Len(reports) :
                  Elements(reports[i].failedPages) = FailingPages(reports[i])
            /\ final_output.doc.summary.failedPages = FailingTotal(reports)
            /\ final_json.doc.summary.failedPages = FailingTotal(reports)
            /\ Len(cards) = Len(failing)
            /\ \A k \in 1 .. Len(cards) :
                  /\ cards[k].reportId = failing[k].reportId
                  /\ {t.page_name : t \in Elements(cards[k].tiles)} = FailingPages(failing[k])
                  /\ cards[k].count = Cardinality(FailingPages(failing[k]))

\* A session of two reports, one page failed and one passed, has been rendered.
C18_Witness ==
    /\ pc[0] = "done"
    /\ Len(final_output.doc.reports) = 2
    /\ final_output.doc.summary.totalPages = 2
    /\ final_output.doc.summary.failedPages = 1
    /\ Len(html_report.doc.failed_sections) = 1

C19_Order ==
    pc[0] = "scanning" =>
        /\ \A p \in Procs :
              LET items == files[p].items
                  current == SelectSeq(items, ThisSession)
              IN  /\ items = SelectSeq(items, LAMBDA rr : ~ThisSession(rr)) \o current
                  /\ Elements(current) \subseteq appended
                  /\ \A i, j \in 1 .. Len(current) :
                        i < j => current[i].reportId < current[j].reportId
        /\ Cardinality({sl \in Slots : ThisSession(files[sl[1]].items[sl[2]])})
              = Cardinality(appended)

C19_Step ==
    pc[0] = "scanning" =>
        \A p \in Procs :
            files'[p] # files[p] =>
                LET before == IF files[p].kind = "absent" THEN <<>> ELSE files[p].items
                IN  /\ files[p].kind \in {"absent", "list"}
                    /\ files'[p].kind = "list"
                    /\ \E rr \in appended' \ appended : files'[p].items = before \o <<rr>>
                    /\ \A q \in Procs \ {p} : files'[q] = files[q]

\* C19: a test's append leaves its worker's file holding what it held before, in the
\* same order, followed by the new result_data, an absent file counting as empty, and
\* changes no other worker's file; so while the tests run every worker file holds, after
\* what an earlier session left in it, exactly the results appended to it, in the order
\* the tests ran.
C19_Append == []C19_Order /\ [][C19_Step]_vars

\* One worker has appended the results of two tests to a file that did not exist, while
\* another worker was running.
C19_Witness ==
    /\ pc[0] = "scanning"
    /\ Cardinality(Workers) = 2
    /\ \E p \in Workers :
          /\ Len(files[p].items) = 2
          /\ \A i \in 1 .. 2 : ThisSession(files[p].items[i])
          /\ files[p].items[1].reportId = 1

\* C20: a worker file written in this session, and the reports the session aggregates,
\* hold only results of this session's tests, whatever earlier sessions left behind.
C20_OnlyThisSession ==
    /\ \A p \in Procs :
          <<"results", p>> \in produced =>
              \A rr \in Elements(files[p].items) : ThisSession(rr)
    /\ final_output.set =>
          \A rr \in Elements(final_output.doc.reports) : ThisSession(rr)

\* ------------------------------------------------------------- helpers of the worker's claims
\* The records of report r written by this session's test into the worker file.
SavedOf(r) == {i \in 1 .. Len(test.file.items) :
                 /\ test.file.items[i].reportId = r
                 /\ test.file.items[i].stamp = 1}

TokenFailed(r) == test.tokens[r] \in {"access", "cached", "embed"}

\* C21: once the worker process is killed, its result file is as the last completed
\* append left it: untouched if no scan of this worker was saved, and otherwise the
\* parseable list of the records it held at the start followed by the records of the
\* completed scans, none partial and none lost.
C21_KilledFileIntact ==
    test.pc = "killed" =>
        IF test.saved = <<>>
        THEN test.file = test.stale
        ELSE test.file = ListFile(test.stale.items \o test.saved)

\* C22 as stated: a report's test that raises for want of a token raises before any
\* scan and leaves no record in the worker file, and it raises for a failure to acquire
\* its own token, never on account of the failure of another report's test.
C22_TokenFailureOneReportOnly ==
    \A r \in Reports :
        TokenFailed(r) =>
            /\ ~test.scans[r].returned
            /\ SavedOf(r) = {}
            /\ test.tokens[r] # "cached"

\* C22: a report's test that raises for want of a token raises before any scan and
\* leaves no record in the worker file.  A failed embed token ends that report's test
\* only; a failed access token is kept by the session-scoped fixture, so that every
\* later test of the same worker raises with it, without a new request.
C22_TokenFailure ==
    \A r \in Reports :
        /\ TokenFailed(r) =>
              /\ ~test.scans[r].returned
              /\ SavedOf(r) = {}
              /\ test.verdicts[r] = "error"
        /\ test.tokens[r] = "cached" <=>
              /\ test.tokens[r] # "none"
              /\ \E q \in 1 .. r - 1 : test.tokens[q] = "access"
        /\ test.tokens[r] = "embed" =>
              \A q \in 1 .. r - 1 : test.tokens[q] \in {"ok", "embed"}

C22_Witness ==
    /\ test.pc = "finished"
    /\ test.tokens[1] = "access"
    /\ test.tokens[NumReports] = "cached"
    /\ test.verdicts[NumReports] = "error"

\* C29: when the test of a report whose page scan returned has ended, the worker
\* file is a parseable list that holds the report's result_data.
C29_CompletedScanSaved ==
    \A r \in Reports :
        (test.scans[r].returned /\ test.verdicts[r] # "none") =>
            /\ test.file.kind = "list"
            /\ SavedOf(r) # {}

\* ------------------------------------------------------------- helpers of the renderer's claims
Documents == {render_call.documents[i] : i \in 1 .. Len(render_call.documents)}

Has(blocks, block) == \E i \in DOMAIN blocks : blocks[i] = block

Place(blocks, block) == CHOOSE i \in DOMAIN blocks : blocks[i] = block

FailingOf(pages) == {j \in 1 .. Len(pages) : pages[j].errors # {}}

FailingReports(reports) == {r \in 1 .. Len(reports) : FailingOf(reports[r].pages) # {}}

\* C23: a rendered document has the success card if and only if no page of the
\* FinalReport has a non-empty error mapping, and it has the failed-report cards if and
\* only if some page has one: exactly one of the two is in the document, once, and it
\* comes after the summary block.
C23_SuccessCardIffNoFailure ==
    \A d \in Documents :
        LET reports == render_call.final_output.reports
            failing == FailingReports(reports) # {}
            cards == Has(d.blocks, "failed-reports")
            success == Has(d.blocks, "all-pass")
        IN  /\ success <=> ~failing
            /\ cards <=> failing
            /\ d.all_pass = success
            /\ (d.failed_sections # <<>>) = cards
            /\ Cardinality({i \in DOMAIN d.blocks :
                              d.blocks[i] \in {"failed-reports", "all-pass"}}) = 1
            /\ Has(d.blocks, "summary")
            /\ \A i \in DOMAIN d.blocks :
                  d.blocks[i] \in {"failed-reports", "all-pass"} =>
                      i > Place(d.blocks, "summary")

C23_Witness ==
    /\ Len(render_call.documents) = 2
    /\ Len(render_call.final_output.reports) = 2
    /\ FailingReports(render_call.final_output.reports) = {2}
    /\ ~render_call.documents[1].all_pass

\* C24: a rendered document has one card for each ReportResult with a failing page, in
\* the order of the reports, and none for any other; a card states the number of the
\* report's failing pages and has one tile for each of them, in page order, with the
\* page's name, its serviceUrl and all its (key, message) pairs; no tile is of a page
\* that passed.
C24_CardsAndTiles ==
    \A d \in Documents :
        LET reports == render_call.final_output.reports
            cards == d.failed_sections
        IN  /\ Len(cards) = Cardinality(FailingReports(reports))
            /\ \A r \in FailingReports(reports) :
                  Cardinality({c \in DOMAIN cards : cards[c].reportId = reports[r].reportId}) = 1
            /\ \A c, e \in DOMAIN cards : c < e => cards[c].reportId < cards[e].reportId
            /\ \A c \in DOMAIN cards :
                  LET pages == reports[cards[c].reportId].pages
                      tiles == cards[c].tiles
                  IN  /\ cards[c].count = Cardinality(FailingOf(pages))
                      /\ Len(tiles) = cards[c].count
                      /\ {tiles[k].page_name : k \in DOMAIN tiles} = FailingOf(pages)
                      /\ \A k, l \in DOMAIN tiles :
                            k < l => tiles[k].page_name < tiles[l].page_name
                      /\ \A k \in DOMAIN tiles :
                            /\ tiles[k].service_url = pages[tiles[k].page_name].serviceUrl
                            /\ tiles[k].errors = pages[tiles[k].page_name].errors

C24_Witness ==
    /\ render_call.pc = "rendered"
    /\ Len(render_call.final_output.reports) = 2
    /\ FailingReports(render_call.final_output.reports) = {1, 2}
    /\ FailingOf(render_call.final_output.reports[1].pages) = {2}
    /\ Len(render_call.documents[1].failed_sections[1].tiles) = 1

\* C25: two renderings of one FinalReport against one results directory, whose
\* contents are the same at both, give the same document.
C25_Deterministic ==
    Len(render_call.documents) = 2 => render_call.documents[1] = render_call.documents[2]

\* C26: the request body has "identities" only if the dataset requires an effective
\* identity, and the identity has "roles" only if the dataset requires roles as well;
\* the role sent is the report's own role if it has one, and the default
\* row-level-security role only if the report has none.
C26_IdentityAndRoles ==
    token_call.pc \in {"posted", "returned", "raised"} =>
        LET report_info == token_call.report_info
            body == token_call.body
        IN  /\ body.accessLevel = "View"
            /\ "identities" \in DOMAIN body =>
                  /\ report_info.is_effective_identity_required
                  /\ Len(body.identities) = 1
                  /\ body.identities[1].datasets = <<report_info.dataset_id>>
                  /\ "roles" \in DOMAIN body.identities[1] =>
                        /\ report_info.is_effective_identity_roles_required
                        /\ Len(body.identities[1].roles) = 1
                        /\ report_info.role # "" =>
                              body.identities[1].roles[1] = report_info.role
                        /\ report_info.role = "" =>
                              body.identities[1].roles[1] = token_call.default_rls_role

C26_Witness ==
    /\ token_call.pc = "returned"
    /\ token_call.report_info.role = "Viewer"
    /\ token_call.default_rls_role = "DefaultRole"
    /\ "identities" \in DOMAIN token_call.body
    /\ "roles" \in DOMAIN token_call.body.identities[1]

\* ------------------------------------------------------------- the last claims of the session
\* C27: whatever the worker files hold, an aggregation that has begun has completed:
\* the coordinating process has not stopped inside it, final_output is computed, and
\* its reports are ReportResults, written by a test of this session or left in a file
\* that holds a list, nothing else.
C27_AggregationCompletes ==
    performed["aggregate"][0] > 0 =>
        /\ pc[0] # "crashed"
        /\ final_output.set
        /\ \A i \in 1 .. Len(final_output.doc.reports) :
              final_output.doc.reports[i] \in appended \cup {StaleReport}

\* C28: when the wait for a page has ended, the number of entries of the page's error
\* mapping is the number of the discovered visuals that are not in the rendered set
\* plus the number of the error events that arrived.
C28_EntryCountAsClaimed ==
    probe.last.set =>
        Cardinality(DOMAIN LastErrors) =
            Cardinality(Unrendered(probe.last.visuals, probe.last.renderedSet))
            + Len(probe.last.reportErrors)

\* C28 as amended: the keys of the mapping are the distinct titles-or-names of the
\* unrendered visuals together with report-error-1 .. report-error-k, so their number
\* is at most the number of unrendered visuals plus k, and it is that number exactly
\* when no two unrendered visuals share a title-or-name and none is titled
\* report-error-n with n <= k; the k error events keep k entries of their own, and an
\* unrendered visual titled report-error-n shares the n-th one, which holds the
\* event's message.
C28_EntryCount ==
    probe.last.set =>
        LET visuals == probe.last.visuals
            missing == Unrendered(visuals, probe.last.renderedSet)
            k == Len(probe.last.reportErrors)
            labels == {Label(visuals[i]) : i \in missing}
            distinct == /\ \A i, j \in missing :
                              i # j => Label(visuals[i]) # Label(visuals[j])
                        /\ labels \cap ErrorKeys(k) = {}
        IN  /\ DOMAIN LastErrors = labels \cup ErrorKeys(k)
            /\ Cardinality(ErrorKeys(k)) = k
            /\ Cardinality(DOMAIN LastErrors) <= Cardinality(missing) + k
            /\ Cardinality(DOMAIN LastErrors) = Cardinality(missing) + k <=> distinct
            /\ \A n \in 1 .. k : LastErrors[ErrorKey(n)] = probe.last.reportErrors[n]

\* Two unrendered visuals of one title and no error event: one entry.
C28_Witness ==
    /\ probe.last.set
    /\ Len(probe.last.visuals) = 2
    /\ probe.last.renderedSet = {}
    /\ probe.last.reportErrors = <<>>
    /\ probe.last.visuals[1].title = probe.last.visuals[2].title
    /\ probe.last.visuals[1].title.kind = "title"
    /\ Cardinality(DOMAIN LastErrors) = 1

\* C30: the document this session rendered agrees with the summary it shows: it has
\* the success card exactly when summary.failedPages is 0, and its pass-rate figure has
\* the passing style exactly when no page failed, a session without pages included.
C30_DocumentAgreesWithSummary ==
    <<"report_html", 0>> \in produced =>
        LET d == html_report.doc
        IN  /\ d.summary = final_output.doc.summary
            /\ d.all_pass <=> d.summary.failedPages = 0
            /\ d.status_class = "pass" <=> d.summary.failedPages = 0


====
